---------------------------- MODULE Spec2Model ----------------------------
(***************************************************************************)
(* Model of the ai-news-signup worker: the subscription manager            *)
(* (routes/subscribe, routes/verify, routes/unsubscribe over the D1 table   *)
(* `subscribers`) and the archive index manager (archive.ts over one KV     *)
(* record and the R2 bucket).                                               *)
(*                                                                         *)
(* JavaScript strings that the code inspects character by character        *)
(* (emails, names, tokens, header values, dates) are sequences of          *)
(* one-character strings; strings the code only passes along (messages,    *)
(* titles, bodies) are TLA+ strings.                                        *)
(***************************************************************************)
EXTENDS Integers, Sequences, FiniteSets, TLC

VARIABLES
    db,        \* D1 table subscribers: a set of rows
    nextId,    \* AUTOINCREMENT counter of subscribers.id
    kv,        \* ARCHIVE_KV value under 'archive-index' (<<>>: never saved)
    r2,        \* ARCHIVE_R2: function from keys to bodies
    resp,      \* response of the request completed last
    log,       \* history: the last completed requests, oldest first
    lastPut,   \* history: the last successful upload, while no write followed
    deleted,   \* history: ids deleted with success and not uploaded since, each
               \* with whether a stale index was saved after its deletion
    spent,     \* history: the tokens a Verify has verified a row with
    reqs       \* requests in flight (interleaved specifications)

vars == <<db, nextId, kv, r2, resp, log, lastPut, deleted, spent, reqs>>

NULL == "null"

\* null or undefined where a character sequence is expected
NoStr == <<NULL>>

---------------------------------------------------------------------------
(* Strings as sequences of characters                                      *)

CharCodeAt(c) ==
    CASE c = " " -> 32 [] c = "-" -> 45 [] c = "." -> 46
      [] c = "0" -> 48 [] c = "1" -> 49 [] c = "2" -> 50 [] c = "3" -> 51
      [] c = "4" -> 52 [] c = "5" -> 53 [] c = "6" -> 54 [] c = "7" -> 55
      [] c = "8" -> 56 [] c = "9" -> 57 [] c = "@" -> 64
      [] c = "A" -> 65 [] c = "B" -> 66 [] c = "C" -> 67 [] c = "D" -> 68
      [] c = "E" -> 69 [] c = "F" -> 70 [] c = "X" -> 88
      [] c = "a" -> 97 [] c = "b" -> 98 [] c = "c" -> 99 [] c = "d" -> 100
      [] c = "e" -> 101 [] c = "f" -> 102 [] c = "l" -> 108
      [] c = "o" -> 111 [] c = "x" -> 120
      [] OTHER -> 63

\* String.prototype.toLowerCase, on the alphabet above
LowerChar(c) ==
    CASE c = "A" -> "a" [] c = "B" -> "b" [] c = "C" -> "c" [] c = "D" -> "d"
      [] c = "E" -> "e" [] c = "F" -> "f" [] c = "X" -> "x"
      [] OTHER -> c

ToLowerCase(s) == [i \in 1..Len(s) |-> LowerChar(s[i])]

IsSpace(c) == c = " "

RECURSIVE TrimStart(_)
TrimStart(s) ==
    IF s # <<>> /\ IsSpace(Head(s)) THEN TrimStart(Tail(s)) ELSE s

RECURSIVE TrimEnd(_)
TrimEnd(s) ==
    IF s # <<>> /\ IsSpace(s[Len(s)]) THEN TrimEnd(SubSeq(s, 1, Len(s) - 1)) ELSE s

\* String.prototype.trim
Trim(s) == TrimEnd(TrimStart(s))

\* String.prototype.slice(0, n)
Slice0(s, n) == SubSeq(s, 1, IF Len(s) < n THEN Len(s) ELSE n)

RECURSIVE BitXor(_, _)
BitXor(a, b) ==
    IF a = 0 /\ b = 0 THEN 0
    ELSE (((a % 2) + (b % 2)) % 2) + 2 * BitXor(a \div 2, b \div 2)

RECURSIVE BitOr(_, _)
BitOr(a, b) ==
    IF a = 0 /\ b = 0 THEN 0
    ELSE (IF (a % 2) = 1 \/ (b % 2) = 1 THEN 1 ELSE 0) + 2 * BitOr(a \div 2, b \div 2)

---------------------------------------------------------------------------
(* Subscription manager: inputs                                            *)

\* [^\s@]+ : a non-empty run without whitespace or '@'
PlainRun(s) == s # <<>> /\ \A i \in 1..Len(s) : ~IsSpace(s[i]) /\ s[i] # "@"

\* EMAIL_REGEX = /^[^\s@]+@[^\s@]+\.[^\s@]+$/
EmailRegexTest(s) ==
    \E i, j \in 1..Len(s) :
        /\ i < j
        /\ s[i] = "@"
        /\ s[j] = "."
        /\ PlainRun(SubSeq(s, 1, i - 1))
        /\ PlainRun(SubSeq(s, i + 1, j - 1))
        /\ PlainRun(SubSeq(s, j + 1, Len(s)))

EmailA == <<"a", "@", "x", ".", "c">>
EmailB == <<"b", "@", "x", ".", "c">>

\* other ways of writing EmailA in a request: upper case, padded
EmailAUpper == <<"A", "@", "X", ".", "c">>
EmailAPadded == <<" ", "a", "@", "x", ".", "c", " ">>

\* values that are no address: no '@', no '.', blank, empty, undefined
NotEmails ==
    {<<"a", "x", ".", "c">>, <<"a", "@", "x", "c">>, <<"a", " ", "@", "x", ".", "c">>,
     <<" ">>, <<>>, NoStr}

NameAl == <<"A", "l">>
NameBo == <<"B", "o">>

\* name of a request: undefined, empty, padded
RawNames == {NoStr, <<>>, <<" ", "B", "o", " ">>}

\* env.HMAC_SECRET
HMAC_SECRET == <<"c", "0", "d", "e">>

---------------------------------------------------------------------------
(* lib/hmac                                                                *)

\* bytes of a digest (SHA-256 has 32; the model keeps a short digest)
DigestBytes == 2

RECURSIVE SumCodes(_, _)
SumCodes(s, k) ==
    IF s = <<>> THEN 0
    ELSE CharCodeAt(Head(s)) * (k + Len(s)) + SumCodes(Tail(s), k)

\* crypto.subtle.sign('HMAC', key, message): a keyed digest of the message,
\* DigestBytes bytes long
HmacSign(secret, message) ==
    [i \in 1..DigestBytes |->
        (SumCodes(secret, 1) * 31 + SumCodes(message, i) * 7 + i) % 256]

HexChars ==
    <<"0", "1", "2", "3", "4", "5", "6", "7", "8", "9", "a", "b", "c", "d", "e", "f">>

\* b.toString(16).padStart(2, '0')
ByteToHex(b) == <<HexChars[(b \div 16) + 1], HexChars[(b % 16) + 1]>>

RECURSIVE JoinHex(_)
JoinHex(bytes) ==
    IF bytes = <<>> THEN <<>> ELSE ByteToHex(Head(bytes)) \o JoinHex(Tail(bytes))

generateHmacToken(secret, email) == JoinHex(HmacSign(secret, ToLowerCase(email)))

\* the loop of validateHmacToken: result |= expected.charCodeAt(i) ^ token.charCodeAt(i)
RECURSIVE XorFold(_, _, _)
XorFold(expected, token, result) ==
    IF expected = <<>> THEN result
    ELSE XorFold(Tail(expected), Tail(token),
                 BitOr(result, BitXor(CharCodeAt(Head(expected)), CharCodeAt(Head(token)))))

validateHmacTokenBug(secret, email, token) ==
    LET expectedToken == generateHmacToken(secret, email)
    IN  IF Len(expectedToken) # Len(token) THEN FALSE
        ELSE XorFold(SubSeq(expectedToken, 1, Len(expectedToken) - 1),
                     SubSeq(token, 1, Len(token) - 1), 0) = 0

validateHmacToken(secret, email, token) ==
    LET expectedToken == generateHmacToken(secret, email)
    IN  IF Len(expectedToken) # Len(token) THEN FALSE
        ELSE XorFold(expectedToken, token, 0) = 0

---------------------------------------------------------------------------
(* D1 table subscribers                                                    *)

\* verification tokens are 32 characters
TokenLen == 32
NameMax == 100

TokA == [i \in 1..TokenLen |-> "a"]
TokB == [i \in 1..TokenLen |-> "b"]

\* token of the pending row of an address
TokenOf(e) == IF e = EmailA THEN TokA ELSE TokB

\* a row as the double-opt-in path leaves it: unverified, active, token issued
PendingRow(id, e, n) ==
    [id |-> id, email |-> e, name |-> n, verification_token |-> TokenOf(e),
     verified |-> 0, active |-> 1, verified_at |-> NULL]

RowsWhereEmail(d, e) == {r \in d : r.email = e}
\* WHERE verification_token = ?: no row when NULL is bound (NULL = NULL is not true)
RowsWhereToken(d, t) == {r \in d : t # NoStr /\ r.verification_token = t}

\* .first(): the row with the least rowid
First(rows) == CHOOSE r \in rows : \A q \in rows : r.id <= q.id

SetActive1Skipped(r) == r
SetActive1(r) == [r EXCEPT !.active = 1]

SetInactiveUnverified(r) == [r EXCEPT !.active = 0, !.verified = 0]

SetActive0(r) == [r EXCEPT !.active = 0]

\* UPDATE subscribers SET active = 1 WHERE id = ?
ReactivateWhereId(d, id) == {IF r.id = id THEN SetActive1(r) ELSE r : r \in d}

DeactivateSkipped(d, e) == d
DeactivateEveryRow(d, e) == {SetActive0(r) : r \in d}

\* UPDATE subscribers SET active = 0 WHERE email = ?
DeactivateWhereEmail(d, e) == {IF r.email = e THEN SetActive0(r) ELSE r : r \in d}

---------------------------------------------------------------------------
(* lib/turnstile                                                           *)

\* validateTurnstile, by what the siteverify call came back with
validateTurnstile(outcome) ==
    CASE outcome = "pass" -> [success |-> TRUE, error |-> NULL]
      [] outcome = "unavailable" ->
            [success |-> FALSE, error |-> "Turnstile verification service unavailable"]
      [] outcome = "reject" ->
            [success |-> FALSE, error |-> "Turnstile validation failed: invalid-input-response"]
      [] outcome = "rejectNoCodes" ->
            [success |-> FALSE, error |-> "Turnstile validation failed: Unknown error"]
      [] OTHER ->
            [success |-> FALSE, error |-> "Failed to validate Turnstile token"]

---------------------------------------------------------------------------
(* routes/subscribe                                                        *)

Json(status, message) == [status |-> status, success |-> TRUE, text |-> message]
JsonError(status, error) == [status |-> status, success |-> FALSE, text |-> error]

MsgAlready == "You are already subscribed!"
MsgWelcomeBack == "Welcome back! Subscription reactivated."
MsgSubscribed == "You're subscribed! You'll receive the next newsletter."

\* !x for a string parameter: undefined or empty
Falsy(x) == x = NoStr \/ x = <<>>

\* email.toLowerCase().trim()
NormalizeEmail(email) == Trim(ToLowerCase(email))

\* name?.trim().slice(0, 100) || null
SanitizeName(name) ==
    IF name = NoStr THEN NoStr
    ELSE LET n == Slice0(Trim(name), NameMax)
         IN  IF n = <<>> THEN NoStr ELSE n

\* SET verified = 1, verified_at = CURRENT_TIMESTAMP, active = 1, name = COALESCE(?, name)
AutoVerify(r, sanitizedName) ==
    [r EXCEPT !.verified = 1, !.verified_at = "now", !.active = 1,
              !.name = IF sanitizedName # NoStr THEN sanitizedName ELSE r.name]

\* UPDATE subscribers SET ... WHERE id = ?
AutoVerifyWhereId(d, id, sanitizedName) ==
    {IF r.id = id THEN AutoVerify(r, sanitizedName) ELSE r : r \in d}

\* INSERT INTO subscribers (email, name, verified, verified_at, active) VALUES (?, ?, 1, now, 1)
NewRow(id, e, sanitizedName) ==
    [id |-> id, email |-> e, name |-> sanitizedName, verification_token |-> NoStr,
     verified |-> 1, active |-> 1, verified_at |-> "now"]

SubscribeRejectCaptchaIgnored(req, outcome) ==
    IF Falsy(req.email) THEN JsonError(400, "Email is required")
    ELSE IF Falsy(req.turnstileToken) THEN JsonError(400, "Turnstile token is required")
    ELSE IF ~EmailRegexTest(NormalizeEmail(req.email))
         THEN JsonError(400, "Invalid email format")
    ELSE Json(0, NULL)

\* the handler up to the SELECT: the 400 it answers with, or NULL text to go on
SubscribeReject(req, outcome) ==
    IF Falsy(req.email) THEN JsonError(400, "Email is required")
    ELSE IF Falsy(req.turnstileToken) THEN JsonError(400, "Turnstile token is required")
    ELSE IF ~EmailRegexTest(NormalizeEmail(req.email))
         THEN JsonError(400, "Invalid email format")
    ELSE LET t == validateTurnstile(outcome)
         IN  IF ~t.success
             THEN JsonError(400, IF t.error # NULL THEN t.error ELSE "Captcha failed")
             ELSE Json(0, NULL)

SubscribeWriteUnchecked(d, nid, existing, e, sanitizedName) ==
    IF existing # {}
    THEN LET x == First(existing)
         IN  IF x.verified = 1 /\ x.active = 1
             THEN [db |-> d, nextId |-> nid, resp |-> Json(200, MsgAlready)]
             ELSE IF x.verified = 1 /\ x.active # 1
             THEN [db |-> ReactivateWhereId(d, x.id), nextId |-> nid,
                   resp |-> Json(200, MsgWelcomeBack)]
             ELSE [db |-> AutoVerifyWhereId(d, x.id, sanitizedName),
                   nextId |-> nid, resp |-> Json(200, MsgSubscribed)]
    ELSE [db |-> d \cup {NewRow(nid, e, sanitizedName)}, nextId |-> nid + 1,
          resp |-> Json(200, MsgSubscribed)]

\* the handler from the SELECT's result on: existing is what the SELECT returned
SubscribeWrite(d, nid, existing, e, sanitizedName) ==
    IF existing # {}
    THEN LET x == First(existing)
         IN  IF x.verified = 1 /\ x.active = 1
             THEN [db |-> d, nextId |-> nid, resp |-> Json(200, MsgAlready)]
             ELSE IF x.verified = 1 /\ x.active # 1
             THEN [db |-> ReactivateWhereId(d, x.id), nextId |-> nid,
                   resp |-> Json(200, MsgWelcomeBack)]
             ELSE [db |-> AutoVerifyWhereId(d, x.id, sanitizedName),
                   nextId |-> nid, resp |-> Json(200, MsgSubscribed)]
    ELSE IF RowsWhereEmail(d, e) # {}
         \* email TEXT UNIQUE: the INSERT throws, the handler answers 500
         THEN [db |-> d, nextId |-> nid,
               resp |-> JsonError(500, "An unexpected error occurred.")]
         ELSE [db |-> d \cup {NewRow(nid, e, sanitizedName)}, nextId |-> nid + 1,
               resp |-> Json(200, MsgSubscribed)]

---------------------------------------------------------------------------
(* routes/verify                                                           *)

Html(status, page) == [status |-> status, success |-> status = 200, text |-> page]

PageVerified == "You're Subscribed!"
PageUnsubscribed == "Unsubscribed"

MarkVerifiedKeepsToken(r) ==
    [r EXCEPT !.verified = 1, !.verified_at = "now"]

\* SET verified = 1, verification_token = NULL, verified_at = unixepoch()
MarkVerified(r) ==
    [r EXCEPT !.verified = 1, !.verification_token = NoStr, !.verified_at = "now"]

\* UPDATE subscribers SET ... WHERE id = ?
MarkVerifiedWhereId(d, id) == {IF r.id = id THEN MarkVerified(r) ELSE r : r \in d}

---------------------------------------------------------------------------
(* routes/unsubscribe                                                      *)

\* GET /unsubscribe?email=&token=
Unsubscribe(d, email, token) ==
    IF Falsy(email) \/ Falsy(token)
    THEN [db |-> d, resp |-> Html(400, "Invalid unsubscribe link.")]
    ELSE LET normalizedEmail == NormalizeEmail(email)
         IN  IF ~validateHmacToken(HMAC_SECRET, normalizedEmail, token)
             THEN [db |-> d, resp |-> Html(403, "Invalid unsubscribe link.")]
             ELSE [db |-> DeactivateWhereEmail(d, normalizedEmail),
                   resp |-> Html(200, PageUnsubscribed)]

---------------------------------------------------------------------------
(* Requests of the subscription manager and the history of their answers   *)

\* the row state a request meets: absent, unverified, active or inactive
RowClass(rows) ==
    IF rows = {} THEN "absent"
    ELSE IF First(rows).verified # 1 THEN "unverified"
    ELSE IF First(rows).active = 1 THEN "active"
    ELSE "inactive"

\* the history keeps the last `depth` requests
Remember(l, entry, depth) ==
    LET a == Append(l, entry)
    IN  IF Len(a) > depth THEN SubSeq(a, Len(a) - depth + 1, Len(a)) ELSE a

TurnstileToken == <<"t", "k">>

SubscribeRequest(e, n, t, o) == [email |-> e, name |-> n, turnstileToken |-> t, outcome |-> o]

\* a well-formed request with a passing captcha, for each way of writing an address
\* and a name; then one request per way of being turned down
SubscribeRequests ==
    {SubscribeRequest(e, n, TurnstileToken, "pass") :
        e \in {EmailA, EmailAUpper, EmailAPadded}, n \in RawNames}
    \cup {SubscribeRequest(EmailB, NoStr, TurnstileToken, "pass")}
    \cup {SubscribeRequest(e, NameBo, TurnstileToken, "pass") : e \in NotEmails}
    \cup {SubscribeRequest(EmailA, NameBo, t, "pass") : t \in {NoStr, <<>>}}
    \cup {SubscribeRequest(EmailA, NameBo, TurnstileToken, o) :
            o \in {"reject", "rejectNoCodes", "unavailable", "throw"}}

\* the request is one the captcha verifier reported success for, with a valid address
PassingSubscribe(req) ==
    /\ ~Falsy(req.email)
    /\ ~Falsy(req.turnstileToken)
    /\ EmailRegexTest(NormalizeEmail(req.email))
    /\ req.outcome = "pass"

\* what the history keeps of a request that was in order (captcha passed, signature
\* valid, token known): the address or token, the row state it met and whether it
\* was answered 200; of any other request, that it was made and its token
Entry(op, e, token, pass, pre, r) ==
    [op |-> op, email |-> IF pass THEN e ELSE NoStr, token |-> token, pass |-> pass,
     pre |-> IF pass THEN pre ELSE "absent", ok |-> r.status = 200]

\* tokens a verification link can carry: the issued ones, an unknown one, a short one, none
VerifyTokens ==
    {TokA, TokB, [i \in 1..TokenLen |-> "0"], [i \in 1..(TokenLen - 1) |-> "a"], <<>>, NoStr}

\* s with the character at i replaced by another hex digit
FlipChar(s, i) == [s EXCEPT ![i] = IF s[i] = "0" THEN "1" ELSE "0"]

\* s with the hex pairs (bytes) i and j exchanged
SwapPairs(s, i, j) ==
    [k \in 1..Len(s) |->
        CASE k = 2 * i - 1 -> s[2 * j - 1] [] k = 2 * i -> s[2 * j]
          [] k = 2 * j - 1 -> s[2 * i - 1] [] k = 2 * j -> s[2 * i]
          [] OTHER -> s[k]]

SigA == generateHmacToken(HMAC_SECRET, EmailA)

UnsubscribeRequest(e, t) == [email |-> e, token |-> t]

\* links for EmailA, however written, carrying its signature, the signature of the
\* address as written, the signature with one character changed, with two hex pairs
\* transposed, in upper case, cut short, extended, that of another address, or none;
\* links for EmailB and for a blank address carrying their signature; links
\* without an address
UnsubscribeLinks ==
    {UnsubscribeRequest(EmailA, t) :
        t \in {generateHmacToken(HMAC_SECRET, EmailB),
               [i \in 1..Len(SigA) |-> IF SigA[i] \in {"a", "b", "c", "d", "e", "f"}
                                       THEN "F" ELSE SigA[i]],
               SubSeq(SigA, 1, Len(SigA) - 1), SigA \o <<"0">>, <<>>, NoStr}
              \cup {FlipChar(SigA, i) : i \in 1..Len(SigA)}
              \cup {SwapPairs(SigA, i, j) : i, j \in 1..DigestBytes}}
    \cup {UnsubscribeRequest(e, t) :
            e \in {EmailA, EmailAUpper, EmailAPadded},
            t \in {SigA, generateHmacToken(HMAC_SECRET, EmailAPadded)}}
    \cup {UnsubscribeRequest(e, generateHmacToken(HMAC_SECRET, NormalizeEmail(e))) :
            e \in {EmailB, <<" ">>}}
    \cup {UnsubscribeRequest(e, SigA) : e \in {<<>>, NoStr}}

\* fewer requests of each kind, for the specifications with a longer history: every
\* way of writing EmailA, with and without a name, one request for EmailB, one
\* malformed address and one refused captcha
FewSubscribeRequests ==
    {SubscribeRequest(e, n, TurnstileToken, "pass") :
        e \in {EmailA, EmailAUpper, EmailAPadded}, n \in {NoStr, <<" ", "B", "o", " ">>}}
    \cup {SubscribeRequest(EmailB, NoStr, TurnstileToken, "pass"),
          SubscribeRequest(<<"a", "x", ".", "c">>, NoStr, TurnstileToken, "pass"),
          SubscribeRequest(EmailA, NoStr, TurnstileToken, "reject")}

FewVerifyTokens == {TokA, TokB, [i \in 1..TokenLen |-> "0"], NoStr}

FewUnsubscribeLinks ==
    {UnsubscribeRequest(e, SigA) : e \in {EmailA, EmailAUpper, EmailAPadded, NoStr}}
    \cup {UnsubscribeRequest(EmailB, generateHmacToken(HMAC_SECRET, EmailB)),
          UnsubscribeRequest(EmailA, FlipChar(SigA, 1))}

\* the signature the link must carry: that of the address as the handler normalizes it
SignedFor(req) ==
    /\ ~Falsy(req.email)
    /\ req.token = generateHmacToken(HMAC_SECRET, NormalizeEmail(req.email))

---------------------------------------------------------------------------
(* Requests in flight: each handler in the steps its awaited store calls   *)
(* cut it into                                                             *)

MaxInFlight == 2

\* the slots of the requests in flight: one where requests are served one at a
\* time, MaxInFlight where they interleave
Slots == DOMAIN reqs

\* a request that arrives takes the first slot that is free
Free(rs, s) == rs[s].pc = "idle" /\ \A t \in 1..(s - 1) : rs[t].pc # "idle"

\* a request of the subscription manager between its store calls: the request,
\* the rows its SELECT returned, the counts it has made
NoSubscribe == [pc |-> "idle", req |-> <<>>, existing |-> {}, counts |-> <<>>]

\* the request is answered with r and no row is written
AnswerOnly(r, entry, depth) ==
    /\ resp' = r
    /\ log' = Remember(log, entry, depth)
    /\ UNCHANGED <<db, nextId, kv, r2, lastPut, deleted, spent, reqs>>

\* POST /subscribe up to the answer of validateTurnstile
SubscribeStart(s, req, depth) ==
    /\ Free(reqs, s)
    /\ \E rej \in {SubscribeReject(req, req.outcome)} :
        IF rej.status # 0
        THEN AnswerOnly(rej, Entry("subscribe", NoStr, NoStr, PassingSubscribe(req),
                                   "absent", rej), depth)
        ELSE /\ reqs' = [reqs EXCEPT ![s] = [NoSubscribe EXCEPT !.pc = "subscribe:select",
                                                                !.req = <<req>>]]
             /\ UNCHANGED <<db, nextId, kv, r2, resp, log, lastPut, deleted, spent>>

\* `SELECT id, email, verified, active FROM subscribers WHERE email = ?`
SubscribeSelect(s) ==
    /\ reqs[s].pc = "subscribe:select"
    /\ reqs' = [reqs EXCEPT
                    ![s].pc = "subscribe:write",
                    ![s].existing = RowsWhereEmail(db, NormalizeEmail(reqs[s].req[1].email))]
    /\ UNCHANGED <<db, nextId, kv, r2, resp, log, lastPut, deleted, spent>>

\* the UPDATE or INSERT the row read calls for, and the answer
SubscribeFinish(s, depth) ==
    /\ reqs[s].pc = "subscribe:write"
    /\ \E req \in {reqs[s].req[1]} :
       \E e \in {NormalizeEmail(reqs[s].req[1].email)} :
       \E out \in {SubscribeWrite(db, nextId, reqs[s].existing, e, SanitizeName(req.name))} :
        /\ db' = out.db
        /\ nextId' = out.nextId
        /\ resp' = out.resp
        /\ log' = Remember(log, Entry("subscribe", e, NoStr, PassingSubscribe(req),
                                      RowClass(reqs[s].existing), out.resp), depth)
        /\ reqs' = [reqs EXCEPT ![s] = NoSubscribe]
        /\ UNCHANGED <<kv, r2, lastPut, deleted, spent>>

\* GET /verify?token= up to the answer the SELECT allows, or holding the row it
\* returned
VerifySelect(s, token, depth) ==
    /\ Free(reqs, s)
    /\ IF Falsy(token) \/ Len(token) # TokenLen
       THEN \E r \in {Html(400, "Invalid or missing verification token.")} :
                AnswerOnly(r, Entry("verify", NoStr, token, FALSE, "absent", r), depth)
       ELSE \E found \in {RowsWhereToken(db, token)} :
            IF found = {}
            THEN \E r \in {Html(404, "This link is invalid or has expired.")} :
                    AnswerOnly(r, Entry("verify", NoStr, token, FALSE, "absent", r), depth)
            ELSE IF First(found).verified = 1
            THEN \E r \in {Html(200, PageVerified)} :
                    AnswerOnly(r, Entry("verify", NoStr, token, TRUE, RowClass(found), r), depth)
            ELSE /\ reqs' = [reqs EXCEPT ![s] = [NoSubscribe EXCEPT !.pc = "verify:update",
                                                                    !.req = <<token>>,
                                                                    !.existing = found]]
                 /\ UNCHANGED <<db, nextId, kv, r2, resp, log, lastPut, deleted, spent>>

\* `UPDATE subscribers SET verified = 1, ... WHERE id = ?`, and the answer
VerifyUpdate(s, depth) ==
    /\ reqs[s].pc = "verify:update"
    /\ \E token \in {reqs[s].req[1]} :
       \E updated \in {MarkVerifiedWhereId(db, First(reqs[s].existing).id)} :
        /\ db' = updated
        /\ resp' = Html(200, PageVerified)
        /\ log' = Remember(log, Entry("verify", NoStr, token, TRUE, RowClass(reqs[s].existing),
                                      Html(200, PageVerified)), depth)
        /\ spent' = IF updated # db THEN spent \cup {token} ELSE spent
        /\ reqs' = [reqs EXCEPT ![s] = NoSubscribe]
        /\ UNCHANGED <<nextId, kv, r2, lastPut, deleted>>

\* GET /unsubscribe, start to end: its one store call is the UPDATE
DoUnsubscribe(req, depth) ==
    /\ \E s \in Slots : Free(reqs, s)
    /\ \E out \in {Unsubscribe(db, req.email, req.token)} :
       \E e \in {IF Falsy(req.email) THEN NoStr ELSE NormalizeEmail(req.email)} :
        /\ db' = out.db
        /\ resp' = out.resp
        /\ log' = Remember(log, Entry("unsubscribe", e, req.token, SignedFor(req),
                                      RowClass(RowsWhereEmail(db, e)), out.resp), depth)
        /\ UNCHANGED <<nextId, kv, r2, lastPut, deleted, spent, reqs>>

\* tables the service can start from: each address absent or pending
InitialTables ==
    { {PendingRow(1, EmailA, n) : n \in na} \cup
      {PendingRow(IF na = {} THEN 1 ELSE 2, EmailB, n) : n \in nb} :
        na \in {{}, {NoStr}, {NameAl}}, nb \in {{}, {NoStr}} }

NoResponse == [status |-> 0, success |-> TRUE, text |-> NULL]

ArchiveIdle ==
    /\ kv = <<>>
    /\ r2 = <<>>
    /\ lastPut = <<>>
    /\ deleted = {}
    /\ spent = {}

Init ==
    /\ db \in InitialTables
    /\ nextId = Cardinality(db) + 1
    /\ resp = NoResponse
    /\ log = <<>>
    /\ ArchiveIdle
    /\ reqs = <<NoSubscribe>>

Next ==
    \/ \E s \in Slots, req \in SubscribeRequests : SubscribeStart(s, req, 1)
    \/ \E s \in Slots : SubscribeSelect(s)
    \/ \E s \in Slots : SubscribeFinish(s, 1)
    \/ \E s \in Slots, token \in VerifyTokens : VerifySelect(s, token, 1)
    \/ \E s \in Slots : VerifyUpdate(s, 1)
    \/ \E req \in UnsubscribeLinks : DoUnsubscribe(req, 1)

\* the subscription manager, one request at a time, remembering the last request
Spec == Init /\ [][Next]_vars

NextTwice ==
    \/ \E s \in Slots, req \in FewSubscribeRequests : SubscribeStart(s, req, 2)
    \/ \E s \in Slots : SubscribeSelect(s)
    \/ \E s \in Slots : SubscribeFinish(s, 2)
    \/ \E s \in Slots, token \in FewVerifyTokens : VerifySelect(s, token, 2)
    \/ \E s \in Slots : VerifyUpdate(s, 2)
    \/ \E req \in FewUnsubscribeLinks : DoUnsubscribe(req, 2)

\* the same, remembering the last two requests
SpecTwice == Init /\ [][NextTwice]_vars

\* the subscription manager from a table without a row for EmailA, the row of
\* EmailB absent or pending, remembering the last three requests
InitScenario ==
    /\ db \in {{}, {PendingRow(1, EmailB, NoStr)}}
    /\ nextId = Cardinality(db) + 1
    /\ resp = NoResponse
    /\ log = <<>>
    /\ ArchiveIdle
    /\ reqs = <<NoSubscribe>>

NextScenario ==
    \/ \E s \in Slots, req \in FewSubscribeRequests : SubscribeStart(s, req, 3)
    \/ \E s \in Slots : SubscribeSelect(s)
    \/ \E s \in Slots : SubscribeFinish(s, 3)
    \/ \E s \in Slots, token \in FewVerifyTokens : VerifySelect(s, token, 3)
    \/ \E s \in Slots : VerifyUpdate(s, 3)
    \/ \E req \in FewUnsubscribeLinks : DoUnsubscribe(req, 3)

SpecScenario == InitScenario /\ [][NextScenario]_vars

\* requests for EmailA written in two ways, with and without a name, one for
\* EmailB and one with a refused captcha
RaceSubscribeRequests ==
    {SubscribeRequest(EmailA, NoStr, TurnstileToken, "pass"),
     SubscribeRequest(EmailAUpper, <<" ", "B", "o", " ">>, TurnstileToken, "pass"),
     SubscribeRequest(EmailB, NoStr, TurnstileToken, "pass"),
     SubscribeRequest(EmailA, NoStr, TurnstileToken, "reject")}

InitSubscribeRace ==
    /\ db \in InitialTables
    /\ nextId = Cardinality(db) + 1
    /\ resp = NoResponse
    /\ log = <<>>
    /\ ArchiveIdle
    /\ reqs = [s \in 1..MaxInFlight |-> NoSubscribe]

NextSubscribeRace ==
    \/ \E s \in Slots, req \in RaceSubscribeRequests : SubscribeStart(s, req, 0)
    \/ \E s \in Slots : SubscribeSelect(s)
    \/ \E s \in Slots : SubscribeFinish(s, 0)
    \/ \E s \in Slots : VerifySelect(s, TokA, 0)
    \/ \E s \in Slots : VerifyUpdate(s, 0)
    \/ DoUnsubscribe(UnsubscribeRequest(EmailA, SigA), 0)

\* the subscription manager with up to MaxInFlight requests in flight
SpecSubscribeRace == InitSubscribeRace /\ [][NextSubscribeRace]_vars

---------------------------------------------------------------------------
(* archive.ts: values                                                      *)

\* !x for a string the code only passes along: undefined or ''
FalsyText(x) == x = NULL \/ x = ""

IsDigit(c) == c \in {"0", "1", "2", "3", "4", "5", "6", "7", "8", "9"}
DigitValue(c) == CharCodeAt(c) - 48

\* a number n is <<n>>; the number that is NaN, in memory
NaN == <<"Not", "a", "Number">>

RECURSIVE DigitsValue(_, _)
DigitsValue(s, acc) ==
    IF s = <<>> \/ ~IsDigit(Head(s)) THEN acc
    ELSE DigitsValue(Tail(s), acc * 10 + DigitValue(Head(s)))

\* parseInt(str, 10): blanks skipped, a sign, then the leading digits; NaN without
\* one
ParseInt(str, radix) ==
    LET s == TrimStart(str)
        neg == s # <<>> /\ Head(s) = "-"
        t == IF s # <<>> /\ Head(s) \in {"-", "+"} THEN Tail(s) ELSE s
    IN  IF t = <<>> \/ ~IsDigit(Head(t)) THEN NaN
        ELSE IF neg THEN <<0 - DigitsValue(t, 0)>> ELSE <<DigitsValue(t, 0)>>

\* JSON.stringify then parse of a number: NaN becomes null, written <<>>
JsonNumber(x) == IF x = NaN THEN <<>> ELSE x

\* the rank of a character in the collation localeCompare uses: blank and
\* punctuation before digits before letters, letters in alphabetical order, the
\* small letter before its capital
CollationRank(c) ==
    LET primary ==
            CASE c = " " -> 0 [] c = "-" -> 1 [] c = "." -> 3 [] c = "@" -> 4
              [] IsDigit(c) -> 10 + DigitValue(c)
              [] CharCodeAt(LowerChar(c)) >= 97 -> 20 + (CharCodeAt(LowerChar(c)) - 97)
              [] OTHER -> 2
    IN  2 * primary + (IF c # LowerChar(c) THEN 1 ELSE 0)

\* a against b, character by character, by rank \div unit: unit 2 sets case aside
RECURSIVE CompareBy(_, _, _)
CompareBy(a, b, unit) ==
    IF a = <<>> /\ b = <<>> THEN 0
    ELSE IF a = <<>> THEN -1
    ELSE IF b = <<>> THEN 1
    ELSE IF CollationRank(Head(a)) \div unit < CollationRank(Head(b)) \div unit THEN -1
    ELSE IF CollationRank(Head(a)) \div unit > CollationRank(Head(b)) \div unit THEN 1
    ELSE CompareBy(Tail(a), Tail(b), unit)

\* a.localeCompare(b): negative, zero or positive; case decides only between
\* strings that are equal without it
LocaleCompare(a, b) ==
    IF CompareBy(a, b, 2) # 0 THEN CompareBy(a, b, 2) ELSE CompareBy(a, b, 1)

\* the comparator of the sort: (a, b) => b.date_range_end.localeCompare(a.date_range_end)
ByDateEndDescending(a, b) == LocaleCompare(b.date_range_end, a.date_range_end)

\* x put into a sorted sequence after every element that does not sort after it
RECURSIVE InsertSorted(_, _)
InsertSorted(sorted, x) ==
    IF sorted = <<>> THEN <<x>>
    ELSE IF ByDateEndDescending(Head(sorted), x) > 0
         THEN <<x>> \o sorted
         ELSE <<Head(sorted)>> \o InsertSorted(Tail(sorted), x)

RECURSIVE SortFrom(_, _)
SortFrom(sorted, rest) ==
    IF rest = <<>> THEN sorted
    ELSE SortFrom(InsertSorted(sorted, Head(rest)), Tail(rest))

SortSkipped(reports) == reports

\* Array.prototype.sort with the comparator above (a stable sort)
SortReports(reports) == SortFrom(<<>>, reports)

\* reports.findIndex((r) => r.id === id), counted from 1; 0 when there is none
FindIndex(reports, id) ==
    IF \E i \in 1..Len(reports) : reports[i].id = id
    THEN CHOOSE i \in 1..Len(reports) :
            reports[i].id = id /\ \A j \in 1..(i - 1) : reports[j].id # id
    ELSE 0

\* reports.splice(i, 1)
Splice(reports, i) == SubSeq(reports, 1, i - 1) \o SubSeq(reports, i + 1, Len(reports))

---------------------------------------------------------------------------
(* archive.ts: the two stores                                              *)

ADMIN_API_SECRET == <<"s", "3">>

Bearer(token) == <<"B", "e", "a", "r", "e", "r", " ">> \o token

isAuthorizedAnyBearer(authHeader) ==
    /\ authHeader # NoStr
    /\ Len(authHeader) >= 7
    /\ SubSeq(authHeader, 1, 7) = <<"B", "e", "a", "r", "e", "r", " ">>

\* authHeader?.startsWith('Bearer ') and authHeader.slice(7) === secret
isAuthorized(authHeader) ==
    /\ authHeader # NoStr
    /\ Len(authHeader) >= 7
    /\ SubSeq(authHeader, 1, 7) = <<"B", "e", "a", "r", "e", "r", " ">>
    /\ SubSeq(authHeader, 8, Len(authHeader)) = ADMIN_API_SECRET

\* getArchiveIndex: the saved index, or an empty one
getArchiveIndex(kvv) ==
    IF kvv = <<>> THEN [reports |-> <<>>, updated_at |-> "now"] ELSE kvv[1]

\* what JSON.stringify keeps of an entry
JsonMeta(m) ==
    [m EXCEPT !.days = JsonNumber(m.days), !.total_items = JsonNumber(m.total_items)]

\* saveArchiveIndex: the value the KV holds afterwards
saveArchiveIndex(index) ==
    <<[reports |-> [i \in 1..Len(index.reports) |-> JsonMeta(index.reports[i])],
       updated_at |-> "now"]>>

R2PutSkipped(bucket, key, html) == bucket

R2PutTrimmed(bucket, key, html) ==
    [k \in DOMAIN bucket \cup {key} |-> IF k = key THEN Trim(html) ELSE bucket[k]]

\* ARCHIVE_R2.put(key, html)
R2Put(bucket, key, html) ==
    [k \in DOMAIN bucket \cup {key} |-> IF k = key THEN html ELSE bucket[k]]

\* ARCHIVE_R2.delete(key)
R2Delete(bucket, key) == [k \in DOMAIN bucket \ {key} |-> bucket[k]]

ArchiveJson(status, text, data) ==
    [status |-> status, success |-> status \in {200, 201}, text |-> text, data |-> data]

Unauthorized == ArchiveJson(401, "Unauthorized", <<>>)
Continue == ArchiveJson(0, NULL, <<>>)

---------------------------------------------------------------------------
(* archive.ts: the handlers                                                *)

\* GET /archive
GetIndex(kvv) == ArchiveJson(200, NULL, <<getArchiveIndex(kvv)>>)

\* GET /archive/:id from `await c.env.ARCHIVE_R2.get(report.r2_key)` on
GetObject(bucket, report) ==
    IF report.r2_key \notin DOMAIN bucket
    THEN ArchiveJson(404, "Report content not found in storage", <<>>)
    ELSE ArchiveJson(200, "text/html; charset=utf-8", bucket[report.r2_key])

\* GET /archive/:id when no write comes between its two reads
GetReport(kvv, bucket, id) ==
    LET reports == getArchiveIndex(kvv).reports
        i == FindIndex(reports, id)
    IN  IF i = 0 THEN ArchiveJson(404, "Report not found", <<>>)
        ELSE GetObject(bucket, reports[i])

\* POST /archive before any store is touched: the answer that ends it, or Continue
PutReject(req) ==
    IF ~isAuthorized(req.authorization) THEN Unauthorized
    ELSE IF \/ FalsyText(req.reportId) \/ Falsy(req.dateStart) \/ Falsy(req.dateEnd)
            \/ FalsyText(req.generatedAt) \/ FalsyText(req.title) \/ FalsyText(req.summary)
            \/ Falsy(req.days) \/ Falsy(req.totalItems)
    THEN ArchiveJson(400, "Missing required headers: X-Report-Id, X-Date-Start, X-Date-End, X-Generated-At, X-Title, X-Summary, X-Days, X-Total-Items", <<>>)
    ELSE IF Falsy(req.html) \/ Len(Trim(req.html)) = 0
    THEN ArchiveJson(400, "Request body must contain HTML content", <<>>)
    ELSE Continue

\* `reports/${reportId}.html`
R2Key(reportId) == <<"reports/", reportId, ".html">>

\* the metadata the handler builds from the headers
ReportMeta(req) ==
    [id |-> req.reportId,
     date_range_start |-> req.dateStart,
     date_range_end |-> req.dateEnd,
     generated_at |-> req.generatedAt,
     title |-> req.title,
     summary |-> req.summary,
     r2_key |-> R2Key(req.reportId),
     days |-> ParseInt(req.days, 10),
     total_items |-> ParseInt(req.totalItems, 10)]

PutAlwaysPushes(index, reportMeta) ==
    [index EXCEPT !.reports = SortReports(Append(index.reports, reportMeta))]

PutDropsOthers(index, reportMeta) == [index EXCEPT !.reports = <<reportMeta>>]

\* the index with the entry replaced or appended, then sorted
PutIndex(index, reportMeta) ==
    LET existingIndex == FindIndex(index.reports, reportMeta.id)
        reports == IF existingIndex >= 1
                   THEN [index.reports EXCEPT ![existingIndex] = reportMeta]
                   ELSE Append(index.reports, reportMeta)
    IN  [index EXCEPT !.reports = SortReports(reports)]

\* the answer of the upload; c.json writes the entry as JSON
PutAnswer(index, reportMeta) ==
    IF FindIndex(index.reports, reportMeta.id) >= 1
    THEN ArchiveJson(200, "Report updated", <<JsonMeta(reportMeta)>>)
    ELSE ArchiveJson(201, "Report uploaded", <<JsonMeta(reportMeta)>>)

\* the catch of PATCH /archive/:id
PatchFailed == ArchiveJson(500, "Failed to update report metadata", <<>>)

PatchRejectUnvalidated(req) ==
    IF ~isAuthorized(req.authorization) THEN Unauthorized
    ELSE IF ~req.parsed THEN PatchFailed
    ELSE Continue

\* PATCH /archive/:id before the index is read; c.req.json() throws for a body
\* that is no JSON
PatchReject(req) ==
    IF ~isAuthorized(req.authorization) THEN Unauthorized
    ELSE IF ~req.parsed THEN PatchFailed
    ELSE IF FalsyText(req.title) /\ FalsyText(req.summary)
    THEN ArchiveJson(400, "Request body must contain at least one of: title, summary", <<>>)
    ELSE Continue

NotFound == ArchiveJson(404, "Report not found", <<>>)

PatchSetsBoth(index, reportIndex, req) ==
    [index EXCEPT !.reports[reportIndex].title = req.title,
                  !.reports[reportIndex].summary = req.summary]

\* the entry at reportIndex with the provided fields set
PatchIndex(index, reportIndex, req) ==
    LET m == index.reports[reportIndex]
        t == IF ~FalsyText(req.title) THEN [m EXCEPT !.title = req.title] ELSE m
        u == IF ~FalsyText(req.summary) THEN [t EXCEPT !.summary = req.summary] ELSE t
    IN  [index EXCEPT !.reports[reportIndex] = u]

DeleteKeepsEntry(index, reportIndex) == index

\* the index without the entry at reportIndex
DeleteIndex(index, reportIndex) ==
    [index EXCEPT !.reports = Splice(index.reports, reportIndex)]

---------------------------------------------------------------------------
(* Requests of the archive, one at a time                                  *)

D1130 == <<"2", "0", "2", "5", "-", "1", "1", "-", "3", "0">>
D1201 == <<"2", "0", "2", "5", "-", "1", "2", "-", "0", "1">>
D1205 == <<"2", "0", "2", "5", "-", "1", "2", "-", "0", "5">>

HtmlA == <<"<", "a", ">">>
HtmlB == <<" ", "<", "b", ">">>

AdminHeader == Bearer(ADMIN_API_SECRET)

\* headers that do not authorize: none, another scheme, another token
BadAuthHeaders ==
    {NoStr, <<"B", "a", "s", "i", "c", " ">> \o ADMIN_API_SECRET, Bearer(<<"s", "4">>)}

RECURSIVE DecimalDigits(_)
DecimalDigits(n) ==
    IF n < 10 THEN <<HexChars[n + 1]>>
    ELSE DecimalDigits(n \div 10) \o <<HexChars[(n % 10) + 1]>>

\* String(n): how a client writes a number into a header
HeaderNumber(n) == IF n < 0 THEN <<"-">> \o DecimalDigits(0 - n) ELSE DecimalDigits(n)

\* numbers of days and items the uploads of the model carry
Numbers == {0, 7, 42}

UploadHeaders(auth, id, dateEnd, title, days, totalItems, html) ==
    [authorization |-> auth, reportId |-> id, dateStart |-> D1130, dateEnd |-> dateEnd,
     generatedAt |-> "2025-12-06T08:00:00Z", title |-> title, summary |-> "S1",
     days |-> days, totalItems |-> totalItems, html |-> html]

\* PutReport(meta, body) as the request a client sends for it
Upload(id, dateEnd, title, days, totalItems, html) ==
    UploadHeaders(AdminHeader, id, dateEnd, title, HeaderNumber(days),
                  HeaderNumber(totalItems), html)

\* uploads of two reports over two end dates; an upload with every other field
\* different; uploads whose numbers are not plain decimals; an upload without a
\* title, without a body, with a blank body; uploads that are not authorized
PutRequests ==
    {Upload(id, d, "T1", 7, 42, HtmlA) : id \in {"r1", "r2"}, d \in {D1201, D1205}}
    \cup {Upload("r1", D1130, "T2", 0, 0, HtmlB)}
    \cup {UploadHeaders(AdminHeader, "r2", D1205, "T1", n, <<"4", "2">>, HtmlA) :
            n \in {<<"7", "d">>, <<"x">>}}
    \cup {UploadHeaders(AdminHeader, "r1", D1205, "", <<"7">>, <<"4", "2">>, HtmlA),
          UploadHeaders(AdminHeader, "r1", D1205, "T1", <<"7">>, <<"4", "2">>, <<>>),
          UploadHeaders(AdminHeader, "r1", D1205, "T1", <<"7">>, <<"4", "2">>, <<" ", " ">>)}
    \cup {UploadHeaders(a, "r1", D1205, "T1", <<"7">>, <<"4", "2">>, HtmlA) : a \in BadAuthHeaders}

PatchRequest(auth, id, title, summary) ==
    [authorization |-> auth, id |-> id, parsed |-> TRUE, title |-> title, summary |-> summary]

\* patches of a title, of a summary, of both, of neither (absent or empty), for
\* reports that may be in the index and one that never is; a patch not
\* authorized; a patch whose body is no JSON
PatchRequests ==
    {PatchRequest(AdminHeader, id, f[1], f[2]) :
        id \in {"r1", "r9"},
        f \in {<<"T3", NULL>>, <<NULL, "S3">>, <<"T3", "S3">>, <<NULL, NULL>>, <<"", "">>}}
    \cup {PatchRequest(AdminHeader, "r2", NULL, NULL),
          PatchRequest(<<>>, "r1", "T3", NULL),
          PatchRequest(NoStr, "r1", "T3", NULL),
          PatchRequest(Bearer(<<"s", "4">>), "r1", NULL, "S3"),
          [PatchRequest(AdminHeader, "r1", NULL, NULL) EXCEPT !.parsed = FALSE]}

DeleteRequest(auth, id) == [authorization |-> auth, id |-> id]

DeleteRequests ==
    {DeleteRequest(AdminHeader, id) : id \in {"r1", "r2", "r9"}}
    \cup {DeleteRequest(a, "r1") : a \in BadAuthHeaders}

\* deleted: the ids whose DELETE was answered with success and for which no POST
\* has saved an entry since; quiet while no request that had read the index before
\* that deletion has saved it afterwards
JustDeleted(id) == [id |-> id, quiet |-> TRUE]
Forget(del, id) == {d \in del : d.id # id}
Disturb(del, ids) == {[id |-> d.id, quiet |-> d.quiet /\ d.id \notin ids] : d \in del}

\* the last answer, with the request it answers
Answer(route, req, r) ==
    [route |-> route, req |-> req, status |-> r.status, success |-> r.success,
     text |-> r.text, data |-> r.data]

\* the requests the interleaved archive serves
RacePuts ==
    {Upload("r1", D1201, "T1", 7, 42, HtmlA), Upload("r1", D1205, "T1", 7, 42, HtmlA),
     Upload("r2", D1201, "T1", 7, 42, HtmlA)}
RacePatches == {PatchRequest(AdminHeader, "r1", "T3", NULL)}
RaceDeletes == {DeleteRequest(AdminHeader, id) : id \in {"r1", "r2"}}

\* a request of the archive between its store calls: the request, the index it
\* read, the ids deleted since it read the index
Idle == [pc |-> "idle", req |-> <<>>, index |-> <<>>, missed |-> {}]

InFlight(pc, req, snapshot) == [pc |-> pc, req |-> <<req>>, index |-> snapshot, missed |-> {}]

\* the slots that hold an index they have read and not yet saved
HoldsIndex(slot) == slot.pc \in {"put:save", "patch:save", "delete:body", "delete:save"}

\* slot s is done; the others that hold an index have missed the deletion of ids
Finish(rs, s, ids) ==
    [t \in DOMAIN rs |->
        IF t = s THEN Idle
        ELSE IF HoldsIndex(rs[t]) THEN [rs[t] EXCEPT !.missed = @ \cup ids]
        ELSE rs[t]]

\* GET /archive, start to end: its one store call is the read of the index
DoGetIndex ==
    /\ \E s \in Slots : Free(reqs, s)
    /\ resp' = Answer("GET /archive", <<>>, GetIndex(kv))
    /\ UNCHANGED <<db, nextId, kv, r2, log, lastPut, deleted, spent, reqs>>

\* GET /archive/:id up to the 404, or holding the index it read
GetRead(s, id) ==
    /\ Free(reqs, s)
    /\ \E index \in {getArchiveIndex(kv)} :
        IF FindIndex(index.reports, id) = 0
        THEN /\ resp' = Answer("GET /archive/:id", id, NotFound)
             /\ UNCHANGED <<db, nextId, kv, r2, log, lastPut, deleted, spent, reqs>>
        ELSE /\ reqs' = [reqs EXCEPT ![s] = InFlight("get:body", id, <<index>>)]
             /\ UNCHANGED <<db, nextId, kv, r2, resp, log, lastPut, deleted, spent>>

\* `await c.env.ARCHIVE_R2.get(report.r2_key)`, answer
GetBody(s) ==
    /\ reqs[s].pc = "get:body"
    /\ \E id \in {reqs[s].req[1]} :
       \E index \in {reqs[s].index[1]} :
        resp' = Answer("GET /archive/:id", id,
                       GetObject(r2, index.reports[FindIndex(index.reports, id)]))
    /\ reqs' = Finish(reqs, s, {})
    /\ UNCHANGED <<db, nextId, kv, r2, log, lastPut, deleted, spent>>

\* POST /archive up to `await c.env.ARCHIVE_R2.put(...)`
PutBody(s, req) ==
    /\ Free(reqs, s)
    /\ \E rej \in {PutReject(req)} :
        IF rej # Continue
        THEN /\ resp' = Answer("POST /archive", req, rej)
             /\ UNCHANGED <<db, nextId, kv, r2, log, lastPut, deleted, spent, reqs>>
        ELSE /\ r2' = R2Put(r2, R2Key(req.reportId), req.html)
             /\ reqs' = [reqs EXCEPT ![s] = InFlight("put:read", req, <<>>)]
             /\ lastPut' = <<>>
             /\ UNCHANGED <<db, nextId, kv, resp, log, deleted, spent>>

\* `const index = await getArchiveIndex(c.env.ARCHIVE_KV)`
PutRead(s) ==
    /\ reqs[s].pc = "put:read"
    /\ reqs' = [reqs EXCEPT ![s].pc = "put:save", ![s].index = <<getArchiveIndex(kv)>>]
    /\ UNCHANGED <<db, nextId, kv, r2, resp, log, lastPut, deleted, spent>>

\* replace or push, sort, `await saveArchiveIndex(...)`, answer
PutSave(s) ==
    /\ reqs[s].pc = "put:save"
    /\ \E req \in {reqs[s].req[1]} :
       \E index \in {reqs[s].index[1]} :
       \E reportMeta \in {ReportMeta(req)} :
        /\ kv' = saveArchiveIndex(PutIndex(index, reportMeta))
        /\ resp' = Answer("POST /archive", req, PutAnswer(index, reportMeta))
        /\ lastPut' = <<req>>
        /\ deleted' = Forget(Disturb(deleted, reqs[s].missed), req.reportId)
        /\ reqs' = Finish(reqs, s, {})
        /\ UNCHANGED <<db, nextId, r2, log, spent>>

\* PATCH /archive/:id up to the 404, or holding the index it read
PatchRead(s, req) ==
    /\ Free(reqs, s)
    /\ \E rej \in {PatchReject(req)} :
       \E index \in {getArchiveIndex(kv)} :
        IF rej # Continue \/ FindIndex(index.reports, req.id) = 0
        THEN /\ resp' = Answer("PATCH /archive/:id", req, IF rej # Continue THEN rej ELSE NotFound)
             /\ UNCHANGED <<db, nextId, kv, r2, log, lastPut, deleted, spent, reqs>>
        ELSE /\ reqs' = [reqs EXCEPT ![s] = InFlight("patch:save", req, <<index>>)]
             /\ UNCHANGED <<db, nextId, kv, r2, resp, log, lastPut, deleted, spent>>

\* apply the updates, `await saveArchiveIndex(...)`, answer
PatchSave(s) ==
    /\ reqs[s].pc = "patch:save"
    /\ \E req \in {reqs[s].req[1]} :
       \E index \in {reqs[s].index[1]} :
       \E reportIndex \in {FindIndex(index.reports, req.id)} :
       \E patched \in {PatchIndex(index, reportIndex, req)} :
        /\ kv' = saveArchiveIndex(patched)
        /\ resp' = Answer("PATCH /archive/:id", req,
                          ArchiveJson(200, "Report metadata updated",
                                      <<patched.reports[reportIndex]>>))
        /\ lastPut' = <<>>
        /\ deleted' = Disturb(deleted, reqs[s].missed)
        /\ reqs' = Finish(reqs, s, {})
        /\ UNCHANGED <<db, nextId, r2, log, spent>>

\* DELETE /archive/:id up to the 404, or holding the index it read
DeleteRead(s, req) ==
    /\ Free(reqs, s)
    /\ \E index \in {getArchiveIndex(kv)} :
        IF ~isAuthorized(req.authorization) \/ FindIndex(index.reports, req.id) = 0
        THEN /\ resp' = Answer("DELETE /archive/:id", req,
                               IF ~isAuthorized(req.authorization) THEN Unauthorized ELSE NotFound)
             /\ UNCHANGED <<db, nextId, kv, r2, log, lastPut, deleted, spent, reqs>>
        ELSE /\ reqs' = [reqs EXCEPT ![s] = InFlight("delete:body", req, <<index>>)]
             /\ UNCHANGED <<db, nextId, kv, r2, resp, log, lastPut, deleted, spent>>

\* `await c.env.ARCHIVE_R2.delete(report.r2_key)`
DeleteBody(s) ==
    /\ reqs[s].pc = "delete:body"
    /\ \E index \in {reqs[s].index[1]} :
        r2' = R2Delete(r2, index.reports[FindIndex(index.reports, reqs[s].req[1].id)].r2_key)
    /\ reqs' = [reqs EXCEPT ![s].pc = "delete:save"]
    /\ lastPut' = <<>>
    /\ UNCHANGED <<db, nextId, kv, resp, log, deleted, spent>>

\* splice, `await saveArchiveIndex(...)`, answer
DeleteSave(s) ==
    /\ reqs[s].pc = "delete:save"
    /\ \E req \in {reqs[s].req[1]} :
       \E index \in {reqs[s].index[1]} :
        /\ kv' = saveArchiveIndex(DeleteIndex(index, FindIndex(index.reports, req.id)))
        /\ resp' = Answer("DELETE /archive/:id", req, ArchiveJson(200, "Report deleted", <<>>))
        /\ lastPut' = <<>>
        /\ deleted' = Forget(Disturb(deleted, reqs[s].missed), req.id) \cup {JustDeleted(req.id)}
        /\ reqs' = Finish(reqs, s, {req.id})
        /\ UNCHANGED <<db, nextId, r2, log, spent>>

InitArchive ==
    /\ db = {}
    /\ nextId = 1
    /\ log = <<>>
    /\ resp = Answer("", <<>>, Continue)
    /\ ArchiveIdle
    /\ reqs = <<Idle>>

NextArchive ==
    \/ DoGetIndex
    \/ \E s \in Slots, id \in {"r1", "r2", "r9"} : GetRead(s, id)
    \/ \E s \in Slots : GetBody(s)
    \/ \E s \in Slots, req \in PutRequests : PutBody(s, req)
    \/ \E s \in Slots : PutRead(s)
    \/ \E s \in Slots : PutSave(s)
    \/ \E s \in Slots, req \in PatchRequests : PatchRead(s, req)
    \/ \E s \in Slots : PatchSave(s)
    \/ \E s \in Slots, req \in DeleteRequests : DeleteRead(s, req)
    \/ \E s \in Slots : DeleteBody(s)
    \/ \E s \in Slots : DeleteSave(s)

\* the archive from nothing saved, one request at a time
SpecArchive == InitArchive /\ [][NextArchive]_vars

---------------------------------------------------------------------------
(* Requests of the archive when a store call rejects: the handler's catch  *)

\* the catch of POST /archive and of DELETE /archive/:id
PutFailed == ArchiveJson(500, "Failed to upload report", <<>>)
DeleteFailed == ArchiveJson(500, "Failed to delete report", <<>>)

\* the request in slot s is answered by the catch of its handler
Caught(s, route, failed) ==
    /\ resp' = Answer(route, reqs[s].req[1], failed)
    /\ reqs' = Finish(reqs, s, {})
    /\ lastPut' = <<>>
    /\ UNCHANGED <<db, nextId, log, spent>>

\* POST /archive when `await c.env.ARCHIVE_R2.put(...)` rejects; the body may
\* have been stored all the same
PutBodyFails(s, req, landed) ==
    /\ Free(reqs, s)
    /\ PutReject(req) = Continue
    /\ r2' = IF landed THEN R2Put(r2, R2Key(req.reportId), req.html) ELSE r2
    /\ resp' = Answer("POST /archive", req, PutFailed)
    /\ lastPut' = <<>>
    /\ UNCHANGED <<db, nextId, kv, log, deleted, spent, reqs>>

\* POST /archive when `await getArchiveIndex(...)` rejects
PutReadFails(s) ==
    /\ reqs[s].pc = "put:read"
    /\ Caught(s, "POST /archive", PutFailed)
    /\ UNCHANGED <<kv, r2, deleted>>

\* POST /archive when `await saveArchiveIndex(...)` rejects; the index may have
\* been saved all the same
PutSaveFails(s, landed) ==
    /\ reqs[s].pc = "put:save"
    /\ Caught(s, "POST /archive", PutFailed)
    /\ \E req \in {reqs[s].req[1]} :
        /\ kv' = IF landed THEN saveArchiveIndex(PutIndex(reqs[s].index[1], ReportMeta(req)))
                 ELSE kv
        /\ deleted' = IF landed THEN Forget(Disturb(deleted, reqs[s].missed), req.reportId)
                      ELSE deleted
    /\ UNCHANGED r2

\* DELETE /archive/:id when `await getArchiveIndex(...)` rejects
DeleteReadFails(s, req) ==
    /\ Free(reqs, s)
    /\ isAuthorized(req.authorization)
    /\ resp' = Answer("DELETE /archive/:id", req, DeleteFailed)
    /\ UNCHANGED <<db, nextId, kv, r2, log, lastPut, deleted, spent, reqs>>

\* DELETE /archive/:id when `await c.env.ARCHIVE_R2.delete(...)` rejects; the
\* body may have been deleted all the same
DeleteBodyFails(s, landed) ==
    /\ reqs[s].pc = "delete:body"
    /\ Caught(s, "DELETE /archive/:id", DeleteFailed)
    /\ \E index \in {reqs[s].index[1]} :
        r2' = IF landed
              THEN R2Delete(r2, index.reports[FindIndex(index.reports, reqs[s].req[1].id)].r2_key)
              ELSE r2
    /\ UNCHANGED <<kv, deleted>>

\* DELETE /archive/:id when `await saveArchiveIndex(...)` rejects; the index may
\* have been saved all the same
DeleteSaveFails(s, landed) ==
    /\ reqs[s].pc = "delete:save"
    /\ Caught(s, "DELETE /archive/:id", DeleteFailed)
    /\ \E req \in {reqs[s].req[1]} :
       \E index \in {reqs[s].index[1]} :
        /\ kv' = IF landed
                 THEN saveArchiveIndex(DeleteIndex(index, FindIndex(index.reports, req.id)))
                 ELSE kv
        /\ deleted' = IF landed THEN Disturb(deleted, reqs[s].missed) ELSE deleted
    /\ UNCHANGED r2

NextArchiveFaults ==
    \/ \E s \in Slots, id \in {"r1", "r2"} : GetRead(s, id)
    \/ \E s \in Slots : GetBody(s)
    \/ \E s \in Slots, req \in RacePuts : PutBody(s, req)
    \/ \E s \in Slots : PutRead(s)
    \/ \E s \in Slots : PutSave(s)
    \/ \E s \in Slots, req \in RacePatches : PatchRead(s, req)
    \/ \E s \in Slots : PatchSave(s)
    \/ \E s \in Slots, req \in RaceDeletes : DeleteRead(s, req)
    \/ \E s \in Slots : DeleteBody(s)
    \/ \E s \in Slots : DeleteSave(s)
    \/ \E s \in Slots, req \in RacePuts, landed \in BOOLEAN : PutBodyFails(s, req, landed)
    \/ \E s \in Slots : PutReadFails(s)
    \/ \E s \in Slots, landed \in BOOLEAN : PutSaveFails(s, landed)
    \/ \E s \in Slots, req \in RaceDeletes : DeleteReadFails(s, req)
    \/ \E s \in Slots, landed \in BOOLEAN : DeleteBodyFails(s, landed)
    \/ \E s \in Slots, landed \in BOOLEAN : DeleteSaveFails(s, landed)

\* the archive from nothing saved, one request at a time, with store calls that
\* may reject
SpecArchiveFaults == InitArchive /\ [][NextArchiveFaults]_vars

---------------------------------------------------------------------------
(* Requests of the archive in flight together                              *)

InitArchiveRace ==
    /\ db = {}
    /\ nextId = 1
    /\ log = <<>>
    /\ resp = Answer("", <<>>, Continue)
    /\ ArchiveIdle
    /\ reqs = [s \in 1..MaxInFlight |-> Idle]

NextArchiveRace ==
    \/ \E s \in Slots, id \in {"r1"} : GetRead(s, id)
    \/ \E s \in Slots : GetBody(s)
    \/ \E s \in Slots, req \in RacePuts : PutBody(s, req)
    \/ \E s \in Slots : PutRead(s)
    \/ \E s \in Slots : PutSave(s)
    \/ \E s \in Slots, req \in RacePatches : PatchRead(s, req)
    \/ \E s \in Slots : PatchSave(s)
    \/ \E s \in Slots, req \in RaceDeletes : DeleteRead(s, req)
    \/ \E s \in Slots : DeleteBody(s)
    \/ \E s \in Slots : DeleteSave(s)

\* the archive from nothing saved, with up to MaxInFlight requests in flight
SpecArchiveRace == InitArchiveRace /\ [][NextArchiveRace]_vars

---------------------------------------------------------------------------
(* routes/admin                                                            *)

\* SELECT COUNT(*) FROM subscribers WHERE verified = 1
SelectVerified(d) == {r \in d : r.verified = 1}

SelectIgnoringActive(d) == {r \in d : r.verified = 1}

\* SELECT name, email FROM subscribers WHERE verified = 1 AND active = 1
SelectVerifiedActive(d) == {r \in d : r.verified = 1 /\ r.active = 1}

\* ORDER BY created_at ASC: rows in the order they were inserted, which is the
\* order of their ids
RECURSIVE OrderByCreatedAt(_)
OrderByCreatedAt(rows) ==
    IF rows = {} THEN <<>> ELSE <<First(rows)>> \o OrderByCreatedAt(rows \ {First(rows)})

\* the entry of the list for a row; unsubscribeUrl is the link with the signature
\* of the stored address
SubscriberWithUnsubscribe(sub) ==
    [name |-> sub.name, email |-> sub.email, active |-> TRUE,
     unsubscribeUrl |-> UnsubscribeRequest(sub.email, generateHmacToken(HMAC_SECRET, sub.email))]

\* GET /admin/subscribers?secret=
ListSubscribers(d, secret) ==
    IF Falsy(secret) \/ secret # ADMIN_API_SECRET
    THEN ArchiveJson(401, "Unauthorized", <<>>)
    ELSE LET results == OrderByCreatedAt(SelectVerifiedActive(d))
         IN  ArchiveJson(200, NULL,
                         [i \in 1..Len(results) |-> SubscriberWithUnsubscribe(results[i])])

\* the secret of a request: the right one, another, empty, none
QuerySecrets == {ADMIN_API_SECRET, <<"s", "4">>, <<>>, NoStr}

\* GET /admin/subscribers, start to end: its one store call is the SELECT
DoListSubscribers(secret) ==
    /\ \E s \in Slots : Free(reqs, s)
    /\ resp' = Answer("GET /admin/subscribers", secret, ListSubscribers(db, secret))
    /\ UNCHANGED <<db, nextId, kv, r2, log, lastPut, deleted, spent, reqs>>

\* GET /admin/stats?secret= up to `SELECT COUNT(*) as count FROM subscribers`
StatsTotal(s, secret) ==
    /\ Free(reqs, s)
    /\ IF Falsy(secret) \/ secret # ADMIN_API_SECRET
       THEN /\ resp' = Answer("GET /admin/stats", secret, ArchiveJson(401, "Unauthorized", <<>>))
            /\ UNCHANGED reqs
       ELSE /\ reqs' = [reqs EXCEPT ![s] = [NoSubscribe EXCEPT !.pc = "stats:verified",
                                                               !.req = <<secret>>,
                                                               !.counts = <<Cardinality(db)>>]]
            /\ UNCHANGED resp
    /\ UNCHANGED <<db, nextId, kv, r2, log, lastPut, deleted, spent>>

\* `SELECT COUNT(*) as count FROM subscribers WHERE verified = 1`
StatsVerified(s) ==
    /\ reqs[s].pc = "stats:verified"
    /\ reqs' = [reqs EXCEPT ![s].pc = "stats:active",
                            ![s].counts = Append(@, Cardinality(SelectVerified(db)))]
    /\ UNCHANGED <<db, nextId, kv, r2, resp, log, lastPut, deleted, spent>>

\* `SELECT COUNT(*) ... WHERE verified = 1 AND active = 1`, answer
StatsActive(s) ==
    /\ reqs[s].pc = "stats:active"
    /\ resp' = Answer("GET /admin/stats", reqs[s].req[1],
                      ArchiveJson(200, NULL,
                                  <<[total |-> reqs[s].counts[1],
                                     verified |-> reqs[s].counts[2],
                                     active |-> Cardinality(SelectVerifiedActive(db))]>>))
    /\ reqs' = [reqs EXCEPT ![s] = NoSubscribe]
    /\ UNCHANGED <<db, nextId, kv, r2, log, lastPut, deleted, spent>>

NextAdmin ==
    \/ \E s \in Slots, req \in FewSubscribeRequests : SubscribeStart(s, req, 0)
    \/ \E s \in Slots : SubscribeSelect(s)
    \/ \E s \in Slots : SubscribeFinish(s, 0)
    \/ \E s \in Slots, token \in FewVerifyTokens : VerifySelect(s, token, 0)
    \/ \E s \in Slots : VerifyUpdate(s, 0)
    \/ \E req \in FewUnsubscribeLinks : DoUnsubscribe(req, 0)
    \/ \E secret \in QuerySecrets : DoListSubscribers(secret)
    \/ \E s \in Slots, secret \in QuerySecrets : StatsTotal(s, secret)
    \/ \E s \in Slots : StatsVerified(s)
    \/ \E s \in Slots : StatsActive(s)

\* the subscription manager with its administrative reads, one request at a time
SpecAdmin == Init /\ [][NextAdmin]_vars

---------------------------------------------------------------------------
(* Properties of the subscription manager                                  *)

Last == log[Len(log)]
Prev == log[Len(log) - 1]

\* a step that answers a request: it leaves no request waiting on a store call
\* that was not waiting before
Completed == reqs' = reqs \/ \E s \in Slots : reqs[s].pc # "idle" /\ reqs'[s].pc = "idle"

\* a step that answers a request of the subscription manager to operation op
Served(op) == Completed /\ log' # <<>> /\ Last'.op = op

\* the one row of an address is verified and active
VerifiedActive(e) ==
    /\ Cardinality(RowsWhereEmail(db, e)) = 1
    /\ \A r \in RowsWhereEmail(db, e) : r.verified = 1 /\ r.active = 1

\* the two requests completed last are Subscribe requests for one valid address,
\* both with a passing captcha
SubscribedTwice ==
    /\ Len(log) >= 2
    /\ Prev.op = "subscribe" /\ Prev.pass
    /\ Last.op = "subscribe" /\ Last.pass
    /\ Last.email = Prev.email

\* C1: Subscribe called twice in a row with one valid email and a passing captcha
\* returns no error either time, whatever the row's state before (absent,
\* unverified, active, inactive), and leaves the row verified and active.
C1_SubscribeTwice ==
    SubscribedTwice =>
        /\ Prev.ok
        /\ Last.ok
        /\ resp.success
        /\ VerifiedActive(Last.email)

\* C1 witness: the two calls happened on a row that was verified and inactive
C1_Witness == SubscribedTwice /\ Prev.pre = "inactive" /\ Last.pre = "active"

\* entry x is a passing Subscribe for an address without a row
SubscribedNew(x) == x.op = "subscribe" /\ x.pass /\ x.pre = "absent"

\* entry y is an Unsubscribe with the valid signature for the address of entry x
UnsubscribedAfter(x, y) == y.op = "unsubscribe" /\ y.pass /\ y.email = x.email

\* entry z is a passing Subscribe for the address of entry x
SubscribedAgain(x, z) == z.op = "subscribe" /\ z.pass /\ z.email = x.email

\* C2: from no row, Subscribe with a passing captcha answers "subscribed" and
\* creates a verified, active row; the Unsubscribe with the valid signature that
\* follows sets active = 0; the Subscribe that follows answers "reactivated" and
\* sets active = 1, the row still verified.
C2_Scenario ==
    /\ (Len(log) >= 1 /\ SubscribedNew(Last)) =>
            /\ resp = Json(200, MsgSubscribed)
            /\ VerifiedActive(Last.email)
    /\ (Len(log) >= 2 /\ SubscribedNew(Prev) /\ UnsubscribedAfter(Prev, Last)) =>
            /\ resp = Html(200, PageUnsubscribed)
            /\ \A r \in RowsWhereEmail(db, Last.email) : r.active = 0 /\ r.verified = 1
            /\ RowsWhereEmail(db, Last.email) # {}
    /\ (Len(log) = 3 /\ SubscribedNew(log[1]) /\ UnsubscribedAfter(log[1], log[2])
            /\ SubscribedAgain(log[1], log[3])) =>
            /\ resp = Json(200, MsgWelcomeBack)
            /\ VerifiedActive(Last.email)

\* C2 witness: the three requests of the scenario were the last three
C2_Witness ==
    /\ Len(log) = 3
    /\ SubscribedNew(log[1])
    /\ UnsubscribedAfter(log[1], log[2])
    /\ SubscribedAgain(log[1], log[3])
    /\ log[3].pre = "inactive"

\* the answer of /unsubscribe to a link it does not accept
InvalidLink(r) == r.status \in {400, 403} /\ r.text = "Invalid unsubscribe link."

\* C3 as claimed: every Unsubscribe whose token is not HMAC(secret, lower(email)) is
\* answered with the failure and changes no row.
C3_AsClaimed ==
    [][\A req \in UnsubscribeLinks :
        (/\ DoUnsubscribe(req, 1)
         /\ (Falsy(req.email)
             \/ req.token # generateHmacToken(HMAC_SECRET, ToLowerCase(req.email))))
        => (InvalidLink(resp') /\ db' = db)]_vars

\* C3: every Unsubscribe whose token is not HMAC(secret, lower(trim(email))), a token
\* with one character changed or two hex pairs transposed included, is answered
\* with the failure and changes no row. (A step that ends with an Unsubscribe as
\* the last request is an Unsubscribe step.)
C3_BadSignature ==
    [][(Served("unsubscribe") /\ ~Last'.pass) => (InvalidLink(resp') /\ db' = db)]_vars

\* C3 witness: a link for EmailA with two hex pairs of its signature transposed was
\* answered 403 while EmailA had an active row
C3_Witness ==
    /\ Len(log) >= 1
    /\ Last.op = "unsubscribe"
    /\ Last.token = SwapPairs(SigA, 1, 2)
    /\ Last.token # SigA
    /\ resp.status = 403
    /\ \E r \in RowsWhereEmail(db, EmailA) : r.active = 1

\* C4: Unsubscribe for an address without a row, with the valid signature of that
\* address, answers success and creates or changes no row.
C4_UnknownEmail ==
    [][(Served("unsubscribe") /\ Last'.pass /\ Last'.pre = "absent")
        => (resp' = Html(200, PageUnsubscribed) /\ db' = db)]_vars

\* C4 witness: a validly signed link for an address without a row was answered,
\* while another address had an active row
C4_Witness ==
    /\ Len(log) >= 1
    /\ Last.op = "unsubscribe" /\ Last.pass /\ Last.pre = "absent"
    /\ RowsWhereEmail(db, Last.email) = {}
    /\ \E r \in db : r.active = 1

\* C5 as claimed: after a Verify that verified an unverified row and cleared its
\* token, a second Verify with the same token answers success.
C5_SecondVerifySucceeds ==
    (/\ Len(log) >= 2
     /\ Prev.op = "verify" /\ Prev.pass /\ Prev.pre = "unverified" /\ Prev.ok
     /\ Last.op = "verify" /\ Last.token = Prev.token)
    => resp.status = 200
---------------------------------------------------------------------------
(* Properties of the archive                                               *)

SavedReports == getArchiveIndex(kv).reports

\* the entries of the saved index with this id
EntriesOf(id) == {i \in 1..Len(SavedReports) : SavedReports[i].id = id}

\* the entry says what the upload said, days and total_items being the numbers d and t
CarriesUpload(m, req, d, t) ==
    /\ m.id = req.reportId
    /\ m.date_range_start = req.dateStart
    /\ m.date_range_end = req.dateEnd
    /\ m.generated_at = req.generatedAt
    /\ m.title = req.title
    /\ m.summary = req.summary
    /\ m.days = <<d>>
    /\ m.total_items = <<t>>

\* C6: after an authorized PutReport(meta, body) has succeeded and no other write
\* has followed, GetReport(meta.id) answers with exactly the submitted body, and
\* the one index entry for meta.id carries exactly the submitted metadata.
C6_RoundTrip ==
    lastPut # <<>> =>
        \E req \in {lastPut[1]} :
            /\ GetReport(kv, r2, req.reportId)
                    = ArchiveJson(200, "text/html; charset=utf-8", req.html)
            /\ Cardinality(EntriesOf(req.reportId)) = 1
            /\ \A d \in Numbers, t \in Numbers :
                (req.days = HeaderNumber(d) /\ req.totalItems = HeaderNumber(t))
                    => \A i \in EntriesOf(req.reportId) : CarriesUpload(SavedReports[i], req, d, t)

\* a second upload of r1, with another date, title, numbers and a body that starts
\* with a blank, has replaced the first, and r1 has been read back beside r2
C6_Witness ==
    /\ lastPut = <<Upload("r1", D1130, "T2", 0, 0, HtmlB)>>
    /\ Len(SavedReports) = 2
    /\ resp.route = "GET /archive/:id"
    /\ resp.req = "r1"
    /\ resp.status = 200
    /\ resp.data = HtmlB

\* a calendar date as a number that orders as the dates do
DateNumber(d) ==
    DigitsValue(SubSeq(d, 1, 4), 0) * 10000
        + DigitsValue(SubSeq(d, 6, 7), 0) * 100
        + DigitsValue(SubSeq(d, 9, 10), 0)

\* C7: from an empty archive, after any PutReport, PatchReportMeta and DeleteReport
\* calls, interleaved or not, the saved index lists its reports in non-increasing
\* order of date_range_end.
C7_NewestFirst ==
    \A i \in 1..(Len(SavedReports) - 1) :
        DateNumber(SavedReports[i].date_range_end)
            >= DateNumber(SavedReports[i + 1].date_range_end)

\* the report ending 2025-12-05 was uploaded after the one ending 2025-12-01 and
\* is listed before it
C7_Witness ==
    /\ resp.route = "POST /archive"
    /\ resp.status = 201
    /\ resp.req.dateEnd = D1205
    /\ Len(SavedReports) = 2
    /\ SavedReports[1].id = resp.req.reportId
    /\ SavedReports[1].date_range_end = D1205
    /\ SavedReports[2].date_range_end = D1201

\* C8: from an empty archive, no two entries of the saved index ever have the same
\* id, also when calls interleave: an upload for an id in the index replaces it.
C8_UniqueIds ==
    \A i \in 1..Len(SavedReports), j \in 1..Len(SavedReports) :
        SavedReports[i].id = SavedReports[j].id => i = j

\* an upload has replaced the entry of its id while another write was in flight
C8_Witness ==
    /\ resp.route = "POST /archive"
    /\ resp.status = 200
    /\ resp.text = "Report updated"
    /\ Len(SavedReports) = 2
    /\ Cardinality(EntriesOf(resp.req.reportId)) = 1
    /\ \E s \in Slots : reqs[s].pc = "put:save"

\* C9: an authorized PatchReportMeta whose fields hold neither a title nor a summary is
\* answered with a validation error, whether the id is in the index or not, and
\* the stored index and bodies stay as they were.
C9_EmptyPatch ==
    [][(/\ Completed
        /\ resp'.route = "PATCH /archive/:id"
        /\ isAuthorized(resp'.req.authorization)
        /\ resp'.req.parsed
        /\ resp'.req.title \in {NULL, ""}
        /\ resp'.req.summary \in {NULL, ""})
            => (resp'.status = 400 /\ ~resp'.success /\ kv' = kv /\ r2' = r2)]_vars

\* an empty patch for a report that is in the index was refused
C9_Witness ==
    /\ resp.route = "PATCH /archive/:id"
    /\ resp.req = PatchRequest(AdminHeader, "r1", NULL, NULL)
    /\ resp.status = 400
    /\ EntriesOf("r1") # {}

\* C10 as stated: after an authorized DeleteReport(id) has succeeded, with no
\* PutReport for that id since, GetReport(id) answers not-found and the index has
\* no entry with that id.
C10_AsClaimed ==
    \A d \in deleted :
        /\ GetReport(kv, r2, d.id).status = 404
        /\ EntriesOf(d.id) = {}

\* C10: after an authorized DeleteReport(id) has succeeded, with no PutReport for
\* that id since and no save by a request that had read the index before the
\* deletion was saved, GetReport(id) answers not-found and the index has no entry
\* with that id.
C10_DeletedStaysDeleted ==
    \A d \in deleted :
        d.quiet => (GetReport(kv, r2, d.id).status = 404 /\ EntriesOf(d.id) = {})

\* r1 was deleted with success while r2 stays listed, and a write that had read
\* the index after that deletion has been saved since
C10_Witness ==
    /\ JustDeleted("r1") \in deleted
    /\ resp.route = "POST /archive"
    /\ resp.success
    /\ Len(SavedReports) = 1
    /\ SavedReports[1].id = "r2"

\* the header is absent, is no Bearer token, or carries another token than the secret
NotTheAdmin(authHeader) ==
    \/ authHeader = NoStr
    \/ Len(authHeader) < 7
    \/ \E i \in 1..7 : authHeader[i] # Bearer(<<>>)[i]
    \/ [i \in 1..(Len(authHeader) - 7) |-> authHeader[i + 7]] # ADMIN_API_SECRET

WriteRoutes == {"POST /archive", "PATCH /archive/:id", "DELETE /archive/:id"}

\* C11: a PutReport, PatchReportMeta or DeleteReport request whose Authorization
\* header is absent, is no Bearer token or carries another token than the admin
\* secret is answered Unauthorized, and the index and the content store stay as
\* they were.
C11_Unauthorized ==
    [][(Completed /\ resp'.route \in WriteRoutes /\ NotTheAdmin(resp'.req.authorization))
            => (/\ resp'.status = 401
                /\ resp'.text = "Unauthorized"
                /\ ~resp'.success
                /\ kv' = kv
                /\ r2' = r2)]_vars

\* a DELETE with another token than the secret, for a report that is in the index
\* with its body stored, was answered 401
C11_Witness ==
    /\ resp.route = "DELETE /archive/:id"
    /\ resp.req = DeleteRequest(Bearer(<<"s", "4">>), "r1")
    /\ resp.status = 401
    /\ EntriesOf("r1") # {}
    /\ R2Key("r1") \in DOMAIN r2

\* C12: the table holds at most one row per normalized (lower-cased, trimmed)
\* email, in every state of every interleaving of Subscribe requests, two
\* requests in flight for one new address included.
C12_OneRowPerEmail ==
    \A r \in db, q \in db :
        NormalizeEmail(r.email) = NormalizeEmail(q.email) => r = q

\* two requests for EmailA, written differently, both found no row; the INSERT of
\* the second was refused and the table holds the one row of the first
C12_Witness ==
    /\ resp = JsonError(500, "An unexpected error occurred.")
    /\ Cardinality(RowsWhereEmail(db, EmailA)) = 1
    /\ \A s \in Slots : reqs[s].pc = "idle"

\* the answer is one of this route
AnswerOf(r, route) == "route" \in DOMAIN r /\ r.route = route

\* C13: ListActiveVerified with the right admin secret returns exactly the
\* subscribers whose row is verified and active at that moment: nobody
\* unsubscribed or unverified is listed, everybody verified and active is, once.
C13_ListActiveVerified ==
    [][(Completed /\ AnswerOf(resp', "GET /admin/subscribers") /\ resp'.req = ADMIN_API_SECRET)
            => (/\ resp'.status = 200
                /\ {resp'.data[i].email : i \in 1..Len(resp'.data)}
                        = {r.email : r \in {q \in db : q.verified = 1 /\ q.active = 1}}
                /\ \A i, j \in 1..Len(resp'.data) :
                        resp'.data[i].email = resp'.data[j].email => i = j)]_vars

\* the list holds EmailB alone while EmailA has a row that is verified and
\* unsubscribed
C13_Witness ==
    /\ AnswerOf(resp, "GET /admin/subscribers")
    /\ resp.status = 200
    /\ Len(resp.data) = 1
    /\ resp.data[1].email = EmailB
    /\ \E r \in db : r.email = EmailA /\ r.verified = 1 /\ r.active = 0

\* C14: when a Subscribe with a passing captcha meets an unverified row, a row
\* that has a non-empty stored name keeps it, whatever name the request provides
\* (the provided name is stored only if the stored name is empty).
C14_StoredNameKept ==
    [][(Served("subscribe") /\ Last'.pass /\ Last'.pre = "unverified")
            => \A r \in RowsWhereEmail(db, Last'.email) :
               \A q \in RowsWhereEmail(db', Last'.email) :
                    r.name # NoStr => q.name = r.name]_vars

\* C15: from rows that are each absent or pending, no sequence of Subscribe,
\* Verify and Unsubscribe reaches a row with verified = 0 and active = 0.
C15_NoPendingInactive ==
    \A r \in db : ~(r.verified = 0 /\ r.active = 0)

\* C16: a row that holds a verification token is unverified: from rows that are
\* absent or pending with a token, no sequence of Subscribe, Verify and
\* Unsubscribe reaches a row with verified = 1 and a token.
C16_TokenOnlyWhileUnverified ==
    \A r \in db : r.verification_token # NoStr => r.verified = 0

\* C17: Verify(token) on an unverified row that holds the token sets verified and
\* clears the token, and from then on no Verify with that token changes any row.
C17_VerifyOnce ==
    [][Served("verify")
            => /\ (Last'.pass /\ Last'.pre = "unverified")
                    => (/\ Last'.token \in spent'
                        /\ \A r \in RowsWhereToken(db, Last'.token) :
                                r.id = First(RowsWhereToken(db, Last'.token)).id
                                    => \E q \in db' : /\ q.id = r.id
                                                      /\ q.verified = 1
                                                      /\ q.verification_token = NoStr)
               /\ Last'.token \in spent => db' = db]_vars

\* the token of EmailA has verified its row and was presented again: the row is
\* verified without a token, the second call found nothing
C17_Witness ==
    /\ TokA \in spent
    /\ Last.op = "verify"
    /\ Last.token = TokA
    /\ resp = Html(404, "This link is invalid or has expired.")
    /\ \E r \in db : r.email = EmailA /\ r.verified = 1 /\ r.verification_token = NoStr

\* C18: a row that is verified stays verified after every later Subscribe, Verify
\* and Unsubscribe; a verified row with active = 0 is never returned to an
\* unverified state, and a Subscribe for it leaves it verified and active.
C18_VerifiedForGood ==
    [][/\ \A r \in db : r.verified = 1 => \E q \in db' : q.id = r.id /\ q.verified = 1
       /\ (Served("subscribe") /\ Last'.pass /\ Last'.pre = "inactive")
            => \A q \in RowsWhereEmail(db', Last'.email) : q.verified = 1 /\ q.active = 1]_vars

\* a Subscribe has met the verified, unsubscribed row of EmailA and reactivated it
C18_Witness ==
    /\ log # <<>>
    /\ Last.op = "subscribe"
    /\ Last.pass
    /\ Last.pre = "inactive"
    /\ Last.email = EmailA
    /\ resp = Json(200, MsgWelcomeBack)
    /\ VerifiedActive(EmailA)

\* the uploads the handler accepts
AcceptedUploads == {req \in PutRequests : PutReject(req) = Continue}

\* C19: the order of the index is determined by its data and not by the order of
\* the uploads: for two reports with distinct ids, with the same date_range_end
\* or not, PutReport of A then B and PutReport of B then A leave the same
\* sequence of entries.
C19_OrderByDataAlone ==
    \A a \in AcceptedUploads, b \in AcceptedUploads :
        (/\ a.reportId # b.reportId
         /\ EntriesOf(a.reportId) = {}
         /\ EntriesOf(b.reportId) = {})
            => PutIndex(PutIndex(getArchiveIndex(kv), ReportMeta(a)), ReportMeta(b)).reports
                = PutIndex(PutIndex(getArchiveIndex(kv), ReportMeta(b)), ReportMeta(a)).reports

IdsOf(reports) == {reports[i].id : i \in 1..Len(reports)}

\* slot s saves its index and answers in this step
Saves(s, pc) == reqs[s].pc = pc /\ reqs'[s].pc = "idle"

\* C20: of two concurrent authorized writes that both answer success, the one that
\* read the index before the other's save overwrites that save: what a writer
\* saves is the index it read with its own change, whatever was saved since.
C20_StaleSaveWins ==
    [][\A s \in Slots :
        /\ Saves(s, "put:save") =>
            /\ resp'.success
            /\ IdsOf(SavedReports') = IdsOf(reqs[s].index[1].reports) \cup {reqs[s].req[1].reportId}
        /\ Saves(s, "patch:save") =>
            /\ resp'.success
            /\ IdsOf(SavedReports') = IdsOf(reqs[s].index[1].reports)
        /\ Saves(s, "delete:save") =>
            /\ resp'.success
            /\ IdsOf(SavedReports') = IdsOf(reqs[s].index[1].reports) \ {reqs[s].req[1].id}]_vars

\* the uploads of r1 and r2 were both answered (nothing is in flight, both bodies
\* are stored, nothing was ever deleted for good) and the index saved last, by
\* the upload of r2 answered "Report uploaded", lists r2 alone
C20_Witness ==
    /\ \A s \in Slots : reqs[s].pc = "idle"
    /\ AnswerOf(resp, "POST /archive")
    /\ resp.status = 201
    /\ resp.req.reportId = "r2"
    /\ IdsOf(SavedReports) = {"r2"}
    /\ R2Key("r1") \in DOMAIN r2
    /\ R2Key("r2") \in DOMAIN r2
    /\ deleted = {}

\* the request slot s holds at pc is answered by the catch of its handler in
\* this step
CaughtAt(s, pc) == reqs[s].pc = pc /\ reqs'[s].pc = "idle" /\ resp'.status = 500

\* C21: when DeleteReport(id) finds the id in the index and the deletion of the
\* body in the content store fails, the entry is still removed from the index
\* and the index is saved.
C21_DeleteProceeds ==
    [][\A s \in Slots :
        CaughtAt(s, "delete:body")
            => (/\ reqs[s].req[1].id \notin IdsOf(SavedReports')
                /\ kv' = saveArchiveIndex(DeleteIndex(reqs[s].index[1],
                                                      FindIndex(reqs[s].index[1].reports,
                                                                reqs[s].req[1].id))))]_vars

\* the body of the upload is stored under the key of its id
BodyStored(req, bucket) ==
    /\ R2Key(req.reportId) \in DOMAIN bucket
    /\ bucket[R2Key(req.reportId)] = req.html

\* C22: PutReport writes the body before it reads and saves the index: the step
\* that puts the body leaves the index alone; an upload that fails between the
\* two writes leaves the index as it was and the content store with the uploaded
\* body; and no failed upload leaves an index entry for a new id without a body.
C22_BodyBeforeIndex ==
    [][/\ \A s \in Slots :
            /\ (reqs[s].pc = "idle" /\ reqs'[s].pc = "put:read")
                => (/\ kv' = kv
                    /\ BodyStored(reqs'[s].req[1], r2'))
            /\ (CaughtAt(s, "put:read") \/ (CaughtAt(s, "put:save") /\ SavedReports' = SavedReports))
                => (/\ kv' = kv
                    /\ r2' = r2
                    /\ BodyStored(reqs[s].req[1], r2))
       /\ (/\ Completed
           /\ AnswerOf(resp', "POST /archive")
           /\ resp'.text = "Failed to upload report"
           /\ EntriesOf(resp'.req.reportId) = {}
           /\ resp'.req.reportId \in IdsOf(SavedReports'))
            => R2Key(resp'.req.reportId) \in DOMAIN r2']_vars

\* the upload of r2 has failed after its body was put: the index lists r1 and
\* not r2, and the body of r2 is stored
C22_Witness ==
    /\ \A s \in Slots : reqs[s].pc = "idle"
    /\ AnswerOf(resp, "POST /archive")
    /\ resp.status = 500
    /\ resp.req.reportId = "r2"
    /\ EntriesOf("r1") # {}
    /\ EntriesOf("r2") = {}
    /\ R2Key("r2") \in DOMAIN r2

\* C23: from an empty archive, under any interleaving of PutReport,
\* PatchReportMeta and DeleteReport, every entry of the saved index has its body
\* in the content store under its recorded key, so GetReport of an indexed id
\* never reports a missing body.
C23_EveryEntryHasBody ==
    /\ \A i \in 1..Len(SavedReports) : SavedReports[i].r2_key \in DOMAIN r2
    /\ \A id \in IdsOf(SavedReports) :
        GetReport(kv, r2, id).text # "Report content not found in storage"

\* the fields a patch supplies
Supplied(req) ==
    {f \in {"title", "summary"} : req[f] # NULL}

\* C24: an authorized PatchReportMeta for an id in the index changes only the
\* supplied fields (title, summary) of that one entry: its other fields, the
\* other entries, the order of the entries and every stored body stay as they
\* were; for an id not in the index it answers not-found and changes nothing.
C24_PatchFrame ==
    [][(/\ Completed
        /\ AnswerOf(resp', "PATCH /archive/:id")
        /\ isAuthorized(resp'.req.authorization)
        /\ resp'.req.parsed
        /\ ~(FalsyText(resp'.req.title) /\ FalsyText(resp'.req.summary)))
            => IF resp'.req.id \in IdsOf(SavedReports)
               THEN /\ resp'.success
                    /\ r2' = r2
                    /\ Len(SavedReports') = Len(SavedReports)
                    /\ \A i \in 1..Len(SavedReports) :
                        IF SavedReports[i].id = resp'.req.id
                        THEN /\ \A f \in DOMAIN SavedReports[i] \ Supplied(resp'.req) :
                                    SavedReports'[i][f] = SavedReports[i][f]
                             /\ \A f \in Supplied(resp'.req) :
                                    SavedReports'[i][f] \in {resp'.req[f], SavedReports[i][f]}
                             /\ \A f \in {"title", "summary"} :
                                    ~FalsyText(resp'.req[f]) => SavedReports'[i][f] = resp'.req[f]
                        ELSE SavedReports'[i] = SavedReports[i]
               ELSE /\ resp'.status = 404
                    /\ resp'.text = "Report not found"
                    /\ kv' = kv
                    /\ r2' = r2]_vars

\* the title of r1 has just been patched: r1 carries the new title and the
\* summary it was uploaded with, next to the entry of r2
C24_Witness ==
    /\ AnswerOf(resp, "PATCH /archive/:id")
    /\ resp.req = PatchRequest(AdminHeader, "r1", "T3", NULL)
    /\ resp.status = 200
    /\ EntriesOf("r2") # {}
    /\ \E i \in EntriesOf("r1") : SavedReports[i].title = "T3" /\ SavedReports[i].summary = "S1"

\* C25: a Subscribe request with a malformed email, with no captcha token, or
\* whose captcha is rejected or cannot be checked is answered with an error and
\* leaves the subscriber table unchanged: no row is inserted or updated unless
\* the captcha verifier reported success for that request.
C25_RejectedSubscribe ==
    [][/\ (Served("subscribe") /\ ~Last'.pass)
            => (/\ ~resp'.success
                /\ resp'.status = 400
                /\ db' = db
                /\ nextId' = nextId)
       /\ (Served("subscribe") /\ db' # db) => Last'.pass]_vars

\* a Subscribe for an address with a pending row has just been refused because
\* the captcha check could not be made, and the row is still pending
C25_Witness ==
    /\ log # <<>>
    /\ Last.op = "subscribe"
    /\ ~Last.pass
    /\ resp.status = 400
    /\ resp.text = "Failed to validate Turnstile token"
    /\ \E r \in RowsWhereEmail(db, EmailA) : r.verified = 0 /\ r.verification_token = TokA

=============================================================================
